---- MODULE Spec2Model ----
(***************************************************************************)
(* Diskmap: a hash map backed by a memory mapped file (src/diskmap.c).     *)
(*                                                                         *)
(* The file is modelled byte by byte: `file` is the sequence of the bytes  *)
(* of the file the arena is mapped from (a byte that was never written is  *)
(* 0, as in a freshly extended file).  Every struct field is read and      *)
(* written through its little-endian encoding at the offset the C layout   *)
(* gives it, so overlapping writes clobber each other as in the program.   *)
(***************************************************************************)
EXTENDS Integers, Sequences, FiniteSets, TLC

VARIABLES file, mapped, char_signed, tab, ghost, last, exec

vars == <<file, mapped, char_signed, tab, ghost, last, exec>>

(***************************************************************************)
(* Bounds of the model                                                     *)
(***************************************************************************)
MaxInserts == 4
MaxPairs == 3
MaxAllocs == 1
MaxReopens == 1

InitSizes == {64, 420}
AllocSizes == {3, 300}
\* "k" and "c" share their home bucket in tables of 2, 4 and 8 buckets, "b"
\* has the bucket after theirs in tables of 4 and 8 (the last one, so probes
\* wrap around)
Keys == {<<107>>, <<99>>, <<98>>}
OuterKeys == {<<107>>, <<98>>}
\* "g" is never inserted; its home bucket is the one of "k" and "c" in a table
\* of 4 buckets
LookupKeys == Keys \cup {<<103>>}
FillBytes == {65}

(***************************************************************************)
(* Layout of the structs on the 64-bit target                               *)
(***************************************************************************)
SizeofMem == 16
SizeofMemBlock == 16
SizeofHeader == 40
SizeofBucket == 16
SizeofMemptr == 8

OffNextFree == 0
OffSize == 8
OffPrev == 0
OffNext == 8
OffBucketCount == 0
OffBucketSize == 8
OffFilled == 16
OffMaxDist == 24
OffBucketsPtr == 32
OffHash == 0
OffKeyptr == 8

(***************************************************************************)
(* Bytes and 64-bit words                                                  *)
(***************************************************************************)
Min(a, b) == IF a < b THEN a ELSE b
Max(a, b) == IF a > b THEN a ELSE b

Zeros(n) == [i \in 1..n |-> 0]
Ones(n) == [i \in 1..n |-> 255]
Zero8 == <<0, 0, 0, 0, 0, 0, 0, 0>>

ToBytes(n) ==
  <<n % 256, (n \div 256) % 256, (n \div 65536) % 256, (n \div 16777216) % 256,
    0, 0, 0, 0>>

\* The file is the sequence of its bytes: offset a is element a + 1.
Extend(m, n) == IF Len(m) >= n THEN m ELSE m \o Zeros(n - Len(m))

Rd8(m, a) == m[a + 1]

RdBytes(m, a, n) == SubSeq(m, a + 1, a + n)

WrBytes(m, a, bs) == SubSeq(m, 1, a) \o bs \o SubSeq(m, a + Len(bs) + 1, Len(m))

\* a value of 2^31 or more reads as 2^31 - 1: it is beyond every offset the
\* model can reach, which is all the program compares it with
RdU64(m, a) ==
  IF m[a + 5] = 0 /\ m[a + 6] = 0 /\ m[a + 7] = 0 /\ m[a + 8] = 0 /\ m[a + 4] < 64
  THEN m[a + 1] + 256 * m[a + 2] + 65536 * m[a + 3] + 16777216 * m[a + 4]
  ELSE 2147483647

WrU64(m, a, n) ==
  [m EXCEPT ![a + 1] = n % 256, ![a + 2] = (n \div 256) % 256,
            ![a + 3] = (n \div 65536) % 256, ![a + 4] = (n \div 16777216) % 256,
            ![a + 5] = 0, ![a + 6] = 0, ![a + 7] = 0, ![a + 8] = 0]

\* v bound to x in F(x): the value of a local variable that later statements
\* read
Let(v, F(_)) == CHOOSE r \in {F(x) : x \in {v}} : TRUE

\* the NUL-terminated string at offset a (without the NUL)
RECURSIVE CStr(_, _)
CStr(m, a) == IF Rd8(m, a) = 0 THEN <<>> ELSE <<Rd8(m, a)>> \o CStr(m, a + 1)

(***************************************************************************)
(* memory management                                                       *)
(***************************************************************************)
First == SizeofMem
Second == First + SizeofMemBlock

mem_init(m) ==
  WrU64(WrU64(WrU64(WrU64(WrU64(m,
    OffNextFree, Second),
    First + OffNext, Second),
    First + OffPrev, 0),
    Second + OffPrev, First),
    Second + OffNext, 0)

\* lseek(fd, initial_size + 1), write of one byte, mmap, header->size
mem_create(f, initial_size) ==
  mem_init(WrU64(WrBytes(Extend(f, initial_size + 2), initial_size + 1, <<0>>),
                 OffSize, initial_size))

\* variant: the new mapping keeps the header of the old one and nothing else
mem_resize_fresh(m, size) ==
  WrU64(SubSeq(m, 1, SizeofMem) \o Zeros(size + 1 - SizeofMem), OffSize, size)

\* variant: header->size is not written
mem_resize_stale_size(m, size) == WrBytes(Extend(m, size + 1), size, <<0>>)

\* lseek(fd, size), write of one byte, mmap, header->size
mem_resize(m, size) ==
  WrU64(WrBytes(Extend(m, size + 1), size, <<0>>), OffSize, size)

RECURSIVE FindFree(_, _, _)
FindFree(m, free, needed) ==
  Let(RdU64(m, free + OffNext), LAMBDA nxt :
    IF nxt = 0 \/ nxt < free \/ nxt - free > needed
    THEN free
    ELSE FindFree(m, nxt, needed))

Needed(size) == SizeofMemBlock + size

\* variant: the offset is rounded down
AlignNextDown(next) == (next \div 4) * 4

AlignNext(next) == ((next \div 4) + 1) * 4

\* variant: a product that is a multiple of 256 is kept
GrowSizeCeil(next) == (((((next + SizeofMemBlock) * 3) \div 2) + 255) \div 256) * 256

GrowSize(next) == ((((next + SizeofMemBlock) * 3) \div 2) \div 256 + 1) * 256

NeedsGrow(m, next) == next + SizeofMemBlock >= RdU64(m, OffSize)

\* variant: the successor's prev is not written
LinkNoPrev(m, free, prev, next) ==
  WrU64(WrU64(WrU64(m,
    free + OffNext, next),
    free + OffPrev, prev),
    prev + OffNext, free)

\* the block is linked in between prev and next
Link(m, free, prev, next) ==
  WrU64(WrU64(WrU64(WrU64(m,
    free + OffNext, next),
    free + OffPrev, prev),
    prev + OffNext, free),
    next + OffPrev, free)

mem_alloc(m, size) ==
  Let(Needed(size), LAMBDA needed :
  Let(FindFree(m, RdU64(m, OffNextFree), needed), LAMBDA free :
  Let(RdU64(m, free + OffPrev), LAMBDA prev :
  Let(RdU64(m, free + OffNext) = 0, LAMBDA atTail :
  Let(IF atTail THEN AlignNext(free + needed) ELSE RdU64(m, prev + OffNext), LAMBDA next :
  Let(IF atTail /\ NeedsGrow(m, next) THEN mem_resize(m, GrowSize(next)) ELSE m, LAMBDA m1 :
  Let(IF atTail THEN WrU64(WrU64(m1, free + OffNext, next), next + OffNext, 0)
                ELSE m1, LAMBDA m3 :
  Let(WrU64(m3, OffNextFree, RdU64(m3, free + OffNext)), LAMBDA m4 :
    [mem |-> Link(m4, free, prev, next), ptr |-> free + SizeofMemBlock]))))))))

mem_insert_str(m, str) ==
  Let(mem_alloc(m, Len(str) + 1), LAMBDA a :
    [mem |-> WrBytes(a.mem, a.ptr, str \o <<0>>), ptr |-> a.ptr])

(***************************************************************************)
(* hash: FNV-1a on 64-bit words kept as 8 little-endian bytes              *)
(***************************************************************************)
Bit(a, k) == (a \div k) % 2

\* a ^ b for two bytes
XorByte(a, b) ==
    ((Bit(a, 1) + Bit(b, 1)) % 2)
  + ((Bit(a, 2) + Bit(b, 2)) % 2) * 2
  + ((Bit(a, 4) + Bit(b, 4)) % 2) * 4
  + ((Bit(a, 8) + Bit(b, 8)) % 2) * 8
  + ((Bit(a, 16) + Bit(b, 16)) % 2) * 16
  + ((Bit(a, 32) + Bit(b, 32)) % 2) * 32
  + ((Bit(a, 64) + Bit(b, 64)) % 2) * 64
  + ((Bit(a, 128) + Bit(b, 128)) % 2) * 128

\* 0xcbf29ce484222325
FnvOffsetBasis == <<37, 35, 34, 132, 228, 156, 242, 203>>

\* 0x100000001b3 = 2^40 + 0x1b3
FnvPrimeLow == 435

\* the byte that fills the upper 56 bits when the char is promoted to int and
\* converted to uint64_t: a byte >= 0x80 is sign-extended where the build's
\* char is signed
SignExt(c, signed) == IF signed /\ c >= 128 THEN 255 ELSE 0

\* v ^ *str
XorChar(v, c, signed) ==
  <<XorByte(v[1], c), XorByte(v[2], SignExt(c, signed)),
    XorByte(v[3], SignExt(c, signed)), XorByte(v[4], SignExt(c, signed)),
    XorByte(v[5], SignExt(c, signed)), XorByte(v[6], SignExt(c, signed)),
    XorByte(v[7], SignExt(c, signed)), XorByte(v[8], SignExt(c, signed))>>

\* the carries of v * 0x1b3 + (v << 40), byte by byte
RECURSIVE MulCarry(_, _)
MulCarry(v, i) ==
  IF i = 0 THEN 0
  ELSE (v[i] * FnvPrimeLow + (IF i > 5 THEN v[i - 5] ELSE 0) + MulCarry(v, i - 1)) \div 256

\* v * 0x100000001b3 mod 2^64
MulPrime(v) ==
  [i \in 1..8 |->
     (v[i] * FnvPrimeLow + (IF i > 5 THEN v[i - 5] ELSE 0) + MulCarry(v, i - 1)) % 256]

\* do { v = v ^ *str; v *= prime; } while(*str++ != 0), s ends with the NUL
RECURSIVE HashLoop(_, _, _, _)
HashLoop(v, s, i, signed) ==
  Let(MulPrime(XorChar(v, s[i], signed)), LAMBDA v1 :
    IF s[i] = 0 THEN v1 ELSE HashLoop(v1, s, i + 1, signed))

HashOf(str, signed) ==
  Let(HashLoop(FnvOffsetBasis, str \o <<0>>, 1, signed), LAMBDA v :
    IF v = Zero8 THEN ToBytes(1) ELSE v)

hash(str) == HashOf(str, char_signed)

\* h % n for a 64-bit h
RECURSIVE ModFrom(_, _, _)
ModFrom(h, n, i) ==
  IF i > 8 THEN 0 ELSE (ModFrom(h, n, i + 1) * 256 + h[i]) % n

HashMod(h, n) == ModFrom(h, n, 1)

(***************************************************************************)
(* hash table                                                              *)
(***************************************************************************)
InitBucketCount == 2

BucketCount(m, hp) == RdU64(m, hp + OffBucketCount)
BucketSize(m, hp) == RdU64(m, hp + OffBucketSize)
Filled(m, hp) == RdU64(m, hp + OffFilled)
MaxDist(m, hp) == RdU64(m, hp + OffMaxDist)
BucketsPtr(m, hp) == RdU64(m, hp + OffBucketsPtr)

ht_bucket_rel(m, hp, idx, buckets_ptr) == buckets_ptr + idx * BucketSize(m, hp)

ht_bucket(m, hp, idx) == ht_bucket_rel(m, hp, idx, BucketsPtr(m, hp))

ht_value_rel(bucket) == bucket + SizeofBucket

ht_value(m, hp, idx) == ht_value_rel(ht_bucket(m, hp, idx))

BucketHash(m, hp, idx) == RdBytes(m, ht_bucket(m, hp, idx) + OffHash, 8)

BucketKeyptr(m, hp, idx) == RdU64(m, ht_bucket(m, hp, idx) + OffKeyptr)

IsEmpty(h) == h = Zero8

RECURSIVE ZeroHashes(_, _, _)
ZeroHashes(m, hp, i) ==
  IF i >= BucketCount(m, hp) THEN m
  ELSE ZeroHashes(WrBytes(m, ht_bucket(m, hp, i) + OffHash, Zero8), hp, i + 1)

\* bucket_size, bucket_count, filled and max_dist of a new header
NewHeader(m, hp, value_size) ==
  WrU64(WrU64(WrU64(WrU64(m,
    hp + OffBucketSize, SizeofBucket + value_size),
    hp + OffBucketCount, InitBucketCount),
    hp + OffFilled, 0),
    hp + OffMaxDist, 0)

ht_init(m, value_size) ==
  Let(mem_alloc(m, SizeofHeader), LAMBDA a1 :
  Let(NewHeader(a1.mem, a1.ptr, value_size), LAMBDA m4 :
  Let(mem_alloc(m4, BucketCount(m4, a1.ptr) * BucketSize(m4, a1.ptr)), LAMBDA a2 :
    [mem |-> ZeroHashes(WrU64(a2.mem, a1.ptr + OffBucketsPtr, a2.ptr), a1.ptr, 0),
     header_ptr |-> a1.ptr])))

RECURSIVE NextFrom(_, _, _)
NextFrom(m, hp, i) ==
  IF i >= BucketCount(m, hp) THEN -1
  ELSE IF ~IsEmpty(BucketHash(m, hp, i)) THEN i
  ELSE NextFrom(m, hp, i + 1)

\* variant: the scan starts one bucket too far
ht_next_skip(m, hp, bucket_idx) == NextFrom(m, hp, bucket_idx + 2)

ht_next(m, hp, bucket_idx) == NextFrom(m, hp, bucket_idx + 1)

Wrap(pos, bucket_count) == IF pos + 1 = bucket_count THEN 0 ELSE pos + 1

\* variants: the loop gives up one bucket earlier, one bucket later
LookupCutoffEarly(dist, max_dist) == dist >= max_dist

LookupCutoffLate(dist, max_dist) == dist > max_dist + 1

LookupCutoff(dist, max_dist) == dist > max_dist

\* probes: the number of buckets the loop has read when it returns
RECURSIVE LookupLoop(_, _, _, _, _, _)
LookupLoop(m, hp, key, h, pos, dist) ==
  Let(BucketHash(m, hp, pos), LAMBDA bh :
    IF IsEmpty(bh) \/ LookupCutoff(dist, MaxDist(m, hp))
    THEN [pos |-> -1, probes |-> dist + 1]
    ELSE IF bh = h /\ key = CStr(m, BucketKeyptr(m, hp, pos))
    THEN [pos |-> pos, probes |-> dist + 1]
    ELSE LookupLoop(m, hp, key, h, Wrap(pos, BucketCount(m, hp)), dist + 1))

ht_lookup(m, hp, key) ==
  Let(hash(key), LAMBDA h :
    LookupLoop(m, hp, key, h, HashMod(h, BucketCount(m, hp)), 0))

\* variant: the table is resized only when every bucket is taken
MaxFilledFull(bucket_count) == bucket_count

\* variant: the table is not resized before every bucket is in use
MaxFilledOver(bucket_count) == bucket_count + 1

MaxFilled(bucket_count) == Min((9 * bucket_count) \div 10, bucket_count - 1)

\* (pos - hash) % bucket_count in 64-bit unsigned arithmetic; bucket_count
\* divides 2^64, so the wrap of the subtraction does not change the result
ExistDist(pos, h, bucket_count) == (pos - HashMod(h, bucket_count)) % bucket_count

Steal(insert_dist, exist_dist) == insert_dist > exist_dist

\* variant: max_dist is never raised
NewMaxDistStale(max_dist, insert_dist) == max_dist

NewMaxDist(max_dist, insert_dist) == Max(max_dist, insert_dist)

\* memcpy(bucket, to_insert, bucket_size) and the update of max_dist
Place(m, hp, b, to_insert, insert_dist) ==
  Let(WrBytes(m, b, to_insert), LAMBDA copied :
    WrU64(copied, hp + OffMaxDist, NewMaxDist(MaxDist(copied, hp), insert_dist)))

\* variant: the result is the bucket that was written last
LastResult(result, pos) == pos

FirstResult(result, pos) == IF result < 0 THEN pos ELSE result

\* variant: the displaced entry is carried on without its value
CarriedNoValue(m, hp, b) ==
  RdBytes(m, b, SizeofBucket) \o Zeros(BucketSize(m, hp) - SizeofBucket)

\* memcpy(tmp, bucket, bucket_size): the displaced entry, hash, key and value
Carried(m, hp, b) == RdBytes(m, b, BucketSize(m, hp))

\* the number of buckets of the array with hash == 0
Empties(m, hp) ==
  Cardinality({i \in 0..(BucketCount(m, hp) - 1) : IsEmpty(BucketHash(m, hp, i))})

\* steps: the turns of the loop so far.  A loop that has made more than
\* bucket_count turns has seen every bucket without finding an empty one, and
\* it writes no empty entry, so it would go on forever; it is cut there
\* (ended is FALSE).
RECURSIVE InsertLoop(_, _, _, _, _, _, _)
InsertLoop(m, hp, to_insert, pos, insert_dist, result, steps) ==
  Let(ht_bucket(m, hp, pos), LAMBDA b :
  Let(RdBytes(m, b + OffHash, 8), LAMBDA bh :
  Let(BucketCount(m, hp), LAMBDA bc :
    IF steps > bc
    THEN [mem |-> m, result |-> result, steps |-> steps, ended |-> FALSE]
    ELSE IF IsEmpty(bh)
    THEN [mem |-> Place(m, hp, b, to_insert, insert_dist),
          result |-> FirstResult(result, pos), steps |-> steps + 1,
          ended |-> TRUE]
    ELSE Let(ExistDist(pos, bh, bc), LAMBDA exist_dist :
           IF Steal(insert_dist, exist_dist)
           THEN InsertLoop(Place(m, hp, b, to_insert, insert_dist), hp,
                           Carried(m, hp, b),
                           Wrap(pos, bc), exist_dist + 1, FirstResult(result, pos),
                           steps + 1)
           ELSE InsertLoop(m, hp, to_insert,
                           Wrap(pos, bc), insert_dist + 1, result, steps + 1)))))

\* variant: the bucket array is made four times as big
Quadrupled(bucket_count) == bucket_count * 4

\* bucket_count *= 2
Doubled(bucket_count) == bucket_count * 2

RECURSIVE ht_insert_intern(_, _, _)
RECURSIVE ht_resize(_, _)
RECURSIVE ResizeLoop(_, _, _, _, _, _, _)

\* loops: for every run of the do-while loop during the call, those of the
\* calls made by ht_resize first, the bucket_count and the number of empty
\* buckets when the loop started and the turns it made
ht_insert_intern(m, hp, key) ==
  Let(IF Filled(m, hp) >= MaxFilled(BucketCount(m, hp))
      THEN ht_resize(m, hp) ELSE [mem |-> m, loops |-> <<>>], LAMBDA r1 :
  Let(WrU64(r1.mem, hp + OffFilled, Filled(r1.mem, hp) + 1), LAMBDA m2 :
  Let(hash(CStr(m2, key)), LAMBDA h :
  Let(InsertLoop(m2, hp,
                 h \o ToBytes(key) \o Zeros(BucketSize(m2, hp) - SizeofBucket),
                 HashMod(h, BucketCount(m2, hp)), 0, -1, 0), LAMBDA r :
    [mem |-> r.mem, result |-> r.result,
     loops |-> Append(r1.loops, [bucket_count |-> BucketCount(m2, hp),
                                 empty |-> Empties(m2, hp),
                                 steps |-> r.steps,
                                 ended |-> r.ended])]))))

\* variant: the values of the old buckets are not copied
ResizeLoopNoValues(m, hp, old_ptr, old_count, value_size, i, loops) ==
  IF i >= old_count THEN [mem |-> m, loops |-> loops]
  ELSE Let(ht_bucket_rel(m, hp, i, old_ptr), LAMBDA old_bucket :
         IF ~IsEmpty(RdBytes(m, old_bucket + OffHash, 8))
         THEN Let(ht_insert_intern(m, hp, RdU64(m, old_bucket + OffKeyptr)), LAMBDA r :
                ResizeLoop(r.mem, hp, old_ptr, old_count, value_size, i + 1,
                           loops \o r.loops))
         ELSE ResizeLoop(m, hp, old_ptr, old_count, value_size, i + 1, loops))

ResizeLoop(m, hp, old_ptr, old_count, value_size, i, loops) ==
  IF i >= old_count THEN [mem |-> m, loops |-> loops]
  ELSE Let(ht_bucket_rel(m, hp, i, old_ptr), LAMBDA old_bucket :
         IF ~IsEmpty(RdBytes(m, old_bucket + OffHash, 8))
         THEN Let(ht_insert_intern(m, hp, RdU64(m, old_bucket + OffKeyptr)), LAMBDA r :
              Let(WrBytes(r.mem, ht_value(r.mem, hp, r.result),
                          RdBytes(r.mem, ht_value_rel(old_bucket), value_size)), LAMBDA m1 :
                ResizeLoop(m1, hp, old_ptr, old_count, value_size, i + 1,
                           loops \o r.loops)))
         ELSE ResizeLoop(m, hp, old_ptr, old_count, value_size, i + 1, loops))

ht_resize(m, hp) ==
  Let(BucketCount(m, hp), LAMBDA old_count :
  Let(WrU64(m, hp + OffBucketCount, Doubled(old_count)), LAMBDA m1 :
  Let(BucketCount(m1, hp) * BucketSize(m1, hp), LAMBDA size :
  Let(BucketsPtr(m1, hp), LAMBDA old_ptr :
  Let(mem_alloc(WrU64(WrU64(m1, hp + OffFilled, 0), hp + OffMaxDist, 0), size), LAMBDA a :
  Let(WrU64(a.mem, hp + OffBucketsPtr, a.ptr), LAMBDA m4 :
  Let(WrBytes(m4, BucketsPtr(m4, hp), Zeros(size)), LAMBDA m5 :
  Let(ResizeLoop(m5, hp, old_ptr, old_count, BucketSize(m5, hp) - SizeofBucket, 0, <<>>),
      LAMBDA r6 :
    [mem |-> WrBytes(r6.mem, old_ptr, Ones(old_count * BucketSize(r6.mem, hp))),
     loops |-> r6.loops]))))))))

\* what ht_lookup returned is dropped ("if(pos >= 0) pos;"): the key is
\* interned and inserted whether it was found or not
ht_insert_str(m, hp, key) ==
  Let(ht_lookup(m, hp, key).pos, LAMBDA pos :
  Let(mem_insert_str(m, key), LAMBDA k :
    ht_insert_intern(k.mem, hp, k.ptr)))

multimap_get(m, ptr) == RdU64(m, ptr)

\* the branch of a key that did not exist yet: the key is inserted into the
\* outer table, a table is made and its header_ptr stored in the value
NewInner(m, hp, key) ==
  Let(ht_insert_str(m, hp, key), LAMBDA ins :
  Let(ht_init(ins.mem, 0), LAMBDA t :
    [mem |-> WrU64(t.mem, ht_value(t.mem, hp, ins.result), t.header_ptr),
     header_ptr |-> t.header_ptr]))

\* variant: every key is taken for a new one
NotFoundAlways(pos) == TRUE

NotFound(pos) == pos < 0

multimap_insert_key_val(m, hp, key, val) ==
  Let(ht_lookup(m, hp, key).pos, LAMBDA pos :
  Let(IF NotFound(pos) THEN NewInner(m, hp, key)
      ELSE [mem |-> m, header_ptr |-> multimap_get(m, ht_value(m, hp, pos))], LAMBDA t :
    ht_insert_str(t.mem, t.header_ptr, val).mem))

(***************************************************************************)
(* The driver: one arena, at most one top-level table in it (a plain set   *)
(* of keys as in test1, or a multi-map as in test2 and main), allocations  *)
(* of the caller in between, and a close followed by a second mem_create   *)
(* on the same file.                                                       *)
(*                                                                         *)
(* tab   : header_ptr of the caller's struct hash_table, 0 before ht_init  *)
(* ghost : history of the calls made on the current mapping                *)
(* last  : the last call and what it returned                              *)
(* exec  : the function that is executed statement by statement, for the   *)
(*         accesses it makes to the mapping (idle in the other runs)       *)
(***************************************************************************)
NoCall ==
  [op |-> "none", key |-> <<>>, val |-> <<>>, res |-> -1, probes |-> 0,
   loops |-> <<>>]

NoHistory(n, r) ==
  [ins |-> <<>>, pairs |-> <<>>, blobs |-> <<>>,
   n_ins |-> n, n_alloc |-> 0, reopens |-> r,
   at_close |-> [mem |-> <<>>, tab |-> 0, ins |-> <<>>]]

\* a local pointer that was not assigned yet
Unset == -2

\* the local variables that hold raw pointers into the mapping
PtrNames == {"header", "bucket", "old_bucket", "val"}

\* no function is executed statement by statement
NoExec ==
  [fn |-> "none", pc |-> 1, base |-> 0, maps |-> 1,
   ptr |-> [p \in PtrNames |-> Unset],
   stale_line |-> 0, failed_line |-> 0, crashed |-> FALSE]

Init ==
  /\ \E initial_size \in InitSizes : file = mem_create(<<>>, initial_size)
  /\ mapped = TRUE
  /\ char_signed = TRUE
  /\ tab = 0
  /\ ghost = NoHistory(0, 0)
  /\ last = NoCall
  /\ exec = NoExec

\* a run ends with a lookup, which comes after the inserts and allocations
\* as the check loops of test1 and test2 do
Checking == last.op = "ht_lookup"

IsMultimap == tab # 0 /\ BucketSize(file, tab) = SizeofBucket + SizeofMemptr

IsSet == tab # 0 /\ BucketSize(file, tab) = SizeofBucket

HtInit(value_size) ==
  /\ mapped /\ tab = 0
  /\ LET t == ht_init(file, value_size)
     IN  /\ file' = t.mem
         /\ tab' = t.header_ptr
         /\ last' = [NoCall EXCEPT !.op = "ht_init", !.res = t.header_ptr]
  /\ UNCHANGED <<mapped, char_signed, ghost, exec>>

InsertStr(key) ==
  /\ mapped /\ IsSet /\ ~Checking
  /\ ghost.n_ins < MaxInserts
  /\ LET r == ht_insert_str(file, tab, key)
     IN  /\ file' = r.mem
         /\ last' = [NoCall EXCEPT !.op = "ht_insert_str", !.key = key,
                                   !.res = r.result, !.loops = r.loops]
  /\ ghost' = [ghost EXCEPT !.ins = Append(@, key), !.n_ins = @ + 1]
  /\ UNCHANGED <<mapped, char_signed, tab, exec>>

MultimapInsert(key, val) ==
  /\ mapped /\ IsMultimap /\ ~Checking
  /\ ghost.n_ins < MaxPairs
  /\ file' = multimap_insert_key_val(file, tab, key, val)
  /\ last' = [NoCall EXCEPT !.op = "multimap_insert_key_val", !.key = key,
                            !.val = val]
  /\ ghost' = [ghost EXCEPT !.pairs = Append(@, <<key, val>>), !.n_ins = @ + 1]
  /\ UNCHANGED <<mapped, char_signed, tab, exec>>

Lookup(key) ==
  /\ mapped /\ tab # 0 /\ ~Checking
  /\ LET r == ht_lookup(file, tab, key)
     IN  last' = [NoCall EXCEPT !.op = "ht_lookup", !.key = key,
                                !.res = r.pos, !.probes = r.probes]
  /\ UNCHANGED <<file, mapped, char_signed, tab, ghost, exec>>

\* h = mem_alloc(n) by the caller, who then fills [h, h+n) (as main does)
AllocFill(n, b) ==
  /\ LET a == mem_alloc(file, n)
     IN  /\ file' = WrBytes(a.mem, a.ptr, [i \in 1..n |-> b])
         /\ ghost' = [ghost EXCEPT !.blobs = Append(@, [h |-> a.ptr, n |-> n, b |-> b]),
                                   !.n_alloc = @ + 1]
         /\ last' = [NoCall EXCEPT !.op = "mem_alloc", !.res = a.ptr]
  /\ UNCHANGED <<mapped, char_signed, tab, exec>>

Alloc(n, b) ==
  /\ mapped /\ ~Checking
  /\ ghost.n_alloc < MaxAllocs
  /\ AllocFill(n, b)

\* mem_close: msync, munmap, close; the file keeps what the mapping held
Close ==
  /\ mapped
  /\ ghost.reopens < MaxReopens
  /\ mapped' = FALSE
  /\ ghost' = [ghost EXCEPT !.at_close = [mem |-> file, tab |-> tab, ins |-> ghost.ins]]
  /\ last' = [NoCall EXCEPT !.op = "mem_close"]
  /\ UNCHANGED <<file, char_signed, tab, exec>>

\* mem_create on the file that was closed; the new process has no table
\* handle yet, its history starts again
Reopen(initial_size) ==
  /\ ~mapped
  /\ file' = mem_create(file, initial_size)
  /\ mapped' = TRUE
  /\ tab' = 0
  /\ ghost' = [NoHistory(ghost.n_ins, ghost.reopens + 1) EXCEPT !.at_close = ghost.at_close]
  /\ last' = [NoCall EXCEPT !.op = "mem_create"]
  /\ UNCHANGED <<char_signed, exec>>

\* test1 and test2: one table on one mapping, the caller's allocations and
\* lookups in between
Next ==
  \/ \E vs \in {0, SizeofMemptr} : HtInit(vs)
  \/ \E k \in Keys : InsertStr(k)
  \/ \E k \in OuterKeys, v \in Keys : MultimapInsert(k, v)
  \/ \E k \in LookupKeys : Lookup(k)
  \/ \E n \in AllocSizes, b \in FillBytes : Alloc(n, b)

Spec == Init /\ [][Next]_vars

\* a set of keys that is closed and whose file is given to mem_create again
NextReopen ==
  \/ HtInit(0)
  \/ \E k \in Keys : InsertStr(k)
  \/ Close
  \/ \E s \in InitSizes : Reopen(s)

SpecReopen == Init /\ [][NextReopen]_vars

\* a multi-map whose outer keys collide: "k", "b" and "c" in an outer table
\* of 4 buckets make the insert of "c" displace "b"
InnerValues == {<<107>>, <<99>>}

NextMultimap ==
  \/ HtInit(SizeofMemptr)
  \/ \E k \in Keys, v \in InnerValues : MultimapInsert(k, v)

SpecMultimap == Init /\ [][NextMultimap]_vars

(***************************************************************************)
(* The accesses to the mapping, statement by statement.                    *)
(*                                                                         *)
(* A function is the sequence of the accesses its statements make, each    *)
(* with its source line.  The address of the mapping is a number that      *)
(* changes when mmap in mem_resize returns another address; a raw pointer  *)
(* kept in a local variable remembers the address it was computed from.    *)
(***************************************************************************)
MaxRemaps == 2

\* what mmap returns when it fails
MapFailed == -1

\* an access through MEMPTR, BLOCK, HTMEMPTR, HTHEADER, ht_bucket or ht_value
\* that is resolved against mem->header by the statement itself
Acc(line) == [ev |-> "acc", p |-> "", n |-> 0, line |-> line]

\* p = a pointer into the mapping, kept in a local variable
Res(p, line) == [ev |-> "res", p |-> p, n |-> 0, line |-> line]

\* an access through the local pointer p
Use(p, line) == [ev |-> "use", p |-> p, n |-> 0, line |-> line]

\* mem->header = mmap(...)
Remap(line) == [ev |-> "remap", p |-> "", n |-> 0, line |-> line]

\* an if whose body is the next n accesses
Opt(n, line) == [ev |-> "opt", p |-> "", n |-> n, line |-> line]

\* the end of a then-branch: the n accesses of the else-branch are skipped
Jump(n, line) == [ev |-> "jump", p |-> "", n |-> n, line |-> line]

\* debug_print, mem_sync, mem_unmap, mmap, header->size
mem_resize_events == <<Acc(136), Acc(110), Acc(115), Remap(142), Acc(147)>>

mem_alloc_tail_events ==
  <<Acc(164), Opt(Len(mem_resize_events), 164)>> \o mem_resize_events
    \o <<Acc(170), Acc(171)>>

mem_alloc_events ==
  <<Acc(152), Acc(154), Acc(157), Acc(158), Acc(160),
    Opt(Len(mem_alloc_tail_events), 160)>>
    \o mem_alloc_tail_events
    \o <<Acc(173), Acc(175), Acc(176), Acc(177), Acc(178)>>

mem_insert_str_events == mem_alloc_events \o <<Acc(200)>>

\* variant: header is not resolved again after the second mem_alloc
ht_init_events_stale ==
  mem_alloc_events
    \o <<Res("header", 272), Use("header", 273), Use("header", 274),
         Use("header", 275), Use("header", 276), Use("header", 279)>>
    \o mem_alloc_events
    \o <<Use("header", 281), Use("header", 282), Acc(283),
         Use("header", 282), Acc(283), Use("header", 282)>>

\* the loop over the 2 buckets is unrolled
ht_init_events ==
  mem_alloc_events
    \o <<Res("header", 272), Use("header", 273), Use("header", 274),
         Use("header", 275), Use("header", 276), Use("header", 279)>>
    \o mem_alloc_events
    \o <<Res("header", 280), Use("header", 281), Use("header", 282), Acc(283),
         Use("header", 282), Acc(283), Use("header", 282)>>

\* one turn of the loop
ht_lookup_events ==
  <<Acc(340), Res("bucket", 343), Use("bucket", 345), Acc(345),
    Use("bucket", 346), Use("bucket", 347), Acc(347), Acc(350)>>

\* a turn of the loop that swaps, then the turn that fills the empty bucket
InsertLoopEvents ==
  <<Res("bucket", 378), Use("bucket", 379), Use("bucket", 388), Acc(388),
    Use("bucket", 391), Acc(391), Use("bucket", 392), Acc(392), Acc(393),
    Acc(394), Acc(400),
    Res("bucket", 378), Use("bucket", 379), Use("bucket", 381), Acc(381),
    Acc(383)>>

\* ht_insert_intern from filled++ on
InsertBodyEvents ==
  <<Acc(366), Acc(370), Acc(371), Acc(372), Acc(374)>> \o InsertLoopEvents

\* one turn of the loop over the old buckets; the ht_insert_intern it calls
\* finds filled < max_filled in the table that was just doubled and does not
\* call ht_resize again
ht_resize_events ==
  <<Acc(407), Acc(408), Acc(409), Acc(411), Acc(412), Acc(413)>>
    \o mem_alloc_events
    \o <<Acc(417), Acc(418), Acc(419),
         Res("old_bucket", 421), Use("old_bucket", 422), Use("old_bucket", 423),
         Acc(362), Acc(363)>>
    \o InsertBodyEvents
    \o <<Acc(424), Use("old_bucket", 424), Acc(427)>>

ht_insert_intern_events ==
  <<Acc(362), Acc(363), Opt(Len(ht_resize_events), 363)>>
    \o ht_resize_events \o InsertBodyEvents

ht_insert_str_events ==
  ht_lookup_events \o mem_insert_str_events \o ht_insert_intern_events

\* the branch of a key that did not exist yet
NewInnerEvents ==
  ht_insert_str_events \o ht_init_events \o <<Res("val", 449), Use("val", 450)>>

multimap_insert_key_val_events ==
  ht_lookup_events
    \o <<Opt(Len(NewInnerEvents) + 1, 446)>> \o NewInnerEvents \o <<Jump(2, 451)>>
    \o <<Res("val", 453), Use("val", 455)>>
    \o ht_insert_str_events

Functions ==
  {"mem_alloc", "mem_insert_str", "ht_init", "ht_insert_str", "ht_insert_intern",
   "ht_resize", "multimap_insert_key_val"}

Program(fn) ==
  CASE fn = "mem_alloc" -> mem_alloc_events
    [] fn = "mem_insert_str" -> mem_insert_str_events
    [] fn = "ht_init" -> ht_init_events
    [] fn = "ht_insert_str" -> ht_insert_str_events
    [] fn = "ht_insert_intern" -> ht_insert_intern_events
    [] fn = "ht_resize" -> ht_resize_events
    [] fn = "multimap_insert_key_val" -> multimap_insert_key_val_events
    [] OTHER -> <<>>

Returned == exec.pc > Len(Program(exec.fn))

Running == exec.fn # "none" /\ ~exec.crashed /\ ~Returned

Cur == Program(exec.fn)[exec.pc]

\* an access through an address that is not the current mapping is undefined:
\* the process is killed by a signal, or the access goes through and the
\* function runs on
BadAccess(e) ==
  \E crash \in BOOLEAN :
    exec' = [e EXCEPT !.crashed = crash, !.pc = IF crash THEN @ ELSE @ + 1]

Access ==
  /\ Running /\ Cur.ev = "acc"
  /\ IF exec.base = MapFailed
     THEN BadAccess([exec EXCEPT !.failed_line = IF @ = 0 THEN Cur.line ELSE @])
     ELSE exec' = [exec EXCEPT !.pc = @ + 1]
  /\ UNCHANGED <<file, mapped, char_signed, tab, ghost, last>>

Resolve ==
  /\ Running /\ Cur.ev = "res"
  /\ exec' = [exec EXCEPT !.ptr[Cur.p] = exec.base, !.pc = @ + 1]
  /\ UNCHANGED <<file, mapped, char_signed, tab, ghost, last>>

Deref ==
  /\ Running /\ Cur.ev = "use"
  /\ IF exec.ptr[Cur.p] = MapFailed
     THEN BadAccess([exec EXCEPT !.failed_line = IF @ = 0 THEN Cur.line ELSE @])
     ELSE IF exec.ptr[Cur.p] # exec.base
     THEN BadAccess([exec EXCEPT !.stale_line = IF @ = 0 THEN Cur.line ELSE @])
     ELSE exec' = [exec EXCEPT !.pc = @ + 1]
  /\ UNCHANGED <<file, mapped, char_signed, tab, ghost, last>>

\* mmap returns the old address, another address, or MAP_FAILED
Mmap ==
  /\ Running /\ Cur.ev = "remap"
  /\ \/ /\ exec.base # MapFailed
        /\ exec' = [exec EXCEPT !.pc = @ + 1]
     \/ /\ exec.maps <= MaxRemaps
        /\ exec' = [exec EXCEPT !.base = exec.maps, !.maps = @ + 1, !.pc = @ + 1]
     \/ exec' = [exec EXCEPT !.base = MapFailed, !.pc = @ + 1]
  /\ UNCHANGED <<file, mapped, char_signed, tab, ghost, last>>

Branch ==
  /\ Running /\ Cur.ev = "opt"
  /\ \E skip \in {0, Cur.n} : exec' = [exec EXCEPT !.pc = @ + 1 + skip]
  /\ UNCHANGED <<file, mapped, char_signed, tab, ghost, last>>

Goto ==
  /\ Running /\ Cur.ev = "jump"
  /\ exec' = [exec EXCEPT !.pc = @ + 1 + Cur.n]
  /\ UNCHANGED <<file, mapped, char_signed, tab, ghost, last>>

InitPointers ==
  /\ file = mem_create(<<>>, 420)
  /\ mapped = TRUE
  /\ char_signed = TRUE
  /\ tab = 0
  /\ ghost = NoHistory(0, 0)
  /\ last = NoCall
  /\ \E fn \in Functions : exec = [NoExec EXCEPT !.fn = fn]

NextPointers == Access \/ Resolve \/ Deref \/ Mmap \/ Branch \/ Goto

SpecPointers == InitPointers /\ [][NextPointers]_vars

(***************************************************************************)
(* mem_alloc on its own: a few allocations of sizes that grow the arena or *)
(* do not, 444 being the size whose growth from 420 bytes needs exactly    *)
(* 512 bytes                                                               *)
(***************************************************************************)
MaxGrowAllocs == 3

GrowAllocSizes == {3, 20, 200, 300, 444, 700}

AllocOnly(n, b) ==
  /\ mapped
  /\ ghost.n_alloc < MaxGrowAllocs
  /\ AllocFill(n, b)

NextAlloc == \E n \in GrowAllocSizes, b \in FillBytes : AllocOnly(n, b)

SpecAlloc == Init /\ [][NextAlloc]_vars

(***************************************************************************)
(* hash on its own: every key over a few byte values, on a build whose     *)
(* char is signed and on one whose char is unsigned                        *)
(***************************************************************************)
MaxKeyLen == 3

\* 0x01, 'k', 0x7f, 0x80, 0xff
HashBytes == {1, 107, 127, 128, 255}

HashKeys == UNION {[1..n -> HashBytes] : n \in 0..MaxKeyLen}

InitHash ==
  /\ file = mem_create(<<>>, 420)
  /\ mapped = TRUE
  /\ char_signed \in BOOLEAN
  /\ tab = 0
  /\ ghost = NoHistory(0, 0)
  /\ \E k \in HashKeys : last = [NoCall EXCEPT !.op = "key", !.key = k]
  /\ exec = NoExec

Hash ==
  /\ last.op = "key"
  /\ last' = [last EXCEPT !.op = "hash", !.res = hash(last.key)]
  /\ UNCHANGED <<file, mapped, char_signed, tab, ghost, exec>>

NextHash == Hash

SpecHash == InitHash /\ [][NextHash]_vars

(***************************************************************************)
(* What the properties below read from a state                             *)
(***************************************************************************)
Range(s) == {s[i] : i \in 1..Len(s)}

Distinct(s) == Cardinality(Range(s)) = Len(s)

\* the slots HTFOREACH visits after bucket_idx, in the order it visits them
RECURSIVE SlotsFrom(_, _, _)
SlotsFrom(m, hp, bucket_idx) ==
  Let(ht_next(m, hp, bucket_idx), LAMBDA i :
    IF i < 0 THEN <<>> ELSE <<i>> \o SlotsFrom(m, hp, i))

Slots(m, hp) == SlotsFrom(m, hp, -1)

\* the blocks reached from the first sentinel through their next fields
RECURSIVE ChainFrom(_, _, _)
ChainFrom(m, block, fuel) ==
  IF block = 0 \/ block + SizeofMemBlock > Len(m) \/ fuel = 0 THEN <<>>
  ELSE <<block>> \o ChainFrom(m, RdU64(m, block + OffNext), fuel - 1)

Chain(m) == ChainFrom(m, First, Len(m) \div SizeofMemBlock)

ArenaSize == RdU64(file, OffSize)

\* the tables stored in the values of the outer table hp of a multi-map
InnerTablesOf(m, hp) ==
  {multimap_get(m, ht_value(m, hp, p)) : p \in Range(Slots(m, hp))}

\* every table of the arena that the caller can reach
Tables ==
  IF tab = 0 THEN {}
  ELSE IF IsMultimap THEN {tab} \cup InnerTablesOf(file, tab)
  ELSE {tab}

OuterKeysOf(pairs) == {pairs[i][1] : i \in 1..Len(pairs)}

\* the values given for outer key k, in the order of the calls
ValuesOf(pairs, k) ==
  Let(SelectSeq(pairs, LAMBDA pr : pr[1] = k), LAMBDA sel :
    [i \in 1..Len(sel) |-> sel[i][2]])

\* the keys that were inserted into the caller's table
InsertedKeys == IF IsMultimap THEN OuterKeysOf(ghost.pairs) ELSE Range(ghost.ins)

(***************************************************************************)
(* Properties                                                              *)
(***************************************************************************)

\* C1: insert-lookup round trip.  After ht_insert_str calls with pairwise
\* distinct keys on one table, ht_lookup of any key inserted so far returns a
\* bucket index p >= 0 whose bucket is occupied and whose interned key string
\* equals the key, whatever rehashes and arena growths happened.  (Stated for
\* every sequence of keys: a key that was inserted more than once is found as
\* well.)
C1_InsertLookupRoundTrip ==
  (IsSet /\ last.op = "ht_lookup" /\ last.key \in Range(ghost.ins))
  => /\ last.res >= 0
     /\ last.res < BucketCount(file, tab)
     /\ ~IsEmpty(BucketHash(file, tab, last.res))
     /\ CStr(file, BucketKeyptr(file, tab, last.res)) = last.key

\* three distinct keys went in, the table was rehashed and the arena grew by
\* the table's own allocations; the key inserted first is looked up
C1_Witness ==
  /\ IsSet /\ Distinct(ghost.ins) /\ Len(ghost.ins) = 3
  /\ ghost.blobs = <<>>
  /\ BucketCount(file, tab) = 4
  /\ ArenaSize > 420
  /\ last.op = "ht_lookup" /\ last.key = ghost.ins[1] /\ last.res >= 0

\* C2: persistence across reopen.  After mem_close, mem_create on the same
\* file restores the arena as it was at the close: next_free, size, the block
\* chain and every index entry are unchanged, and every key inserted before
\* the close is still found.
C2_ReopenRestores ==
  (mapped /\ ghost.reopens > 0 /\ last.op = "mem_create" /\ ghost.at_close.ins # <<>>)
  => /\ RdU64(file, OffNextFree) = RdU64(ghost.at_close.mem, OffNextFree)
     /\ RdU64(file, OffSize) = RdU64(ghost.at_close.mem, OffSize)
     /\ Chain(file) = Chain(ghost.at_close.mem)
     /\ ghost.at_close.tab # 0 =>
          /\ Slots(file, ghost.at_close.tab) = Slots(ghost.at_close.mem, ghost.at_close.tab)
          /\ \A k \in Range(ghost.at_close.ins) :
               ht_lookup(file, ghost.at_close.tab, k).pos
                 = ht_lookup(ghost.at_close.mem, ghost.at_close.tab, k).pos

\* C3: idempotent insert.  A second ht_insert_str with the key of the call
\* before it returns the same bucket index, interns nothing (the block chain
\* is the same) and leaves header.filled as it is.
C3_IdempotentInsert ==
  [][(last.op = "ht_insert_str" /\ last'.op = "ht_insert_str" /\ last'.key = last.key)
     => /\ last'.res = last.res
        /\ Filled(file', tab') = Filled(file, tab)
        /\ Chain(file') = Chain(file)]_vars

\* C4: handle stability.  The bytes the caller wrote to [h, h+n) after
\* h = mem_alloc(n) are unchanged after every later allocation, those that
\* grow the arena included, and h is still the payload of a block of the chain.
C4_HandleStability ==
  \A i \in 1..Len(ghost.blobs) :
     /\ RdBytes(file, ghost.blobs[i].h, ghost.blobs[i].n)
          = [j \in 1..ghost.blobs[i].n |-> ghost.blobs[i].b]
     /\ (ghost.blobs[i].h - SizeofMemBlock) \in Range(Chain(file))

\* a 3-byte block allocated first, then a table and two inserts whose
\* allocations grew the arena twice
C4_Witness ==
  /\ Len(ghost.blobs) = 1
  /\ ghost.blobs[1].h = Second + SizeofMemBlock /\ ghost.blobs[1].n = 3
  /\ tab # 0 /\ ghost.n_ins >= 2
  /\ ArenaSize >= 512

\* C5: multi-map closure.  When the values given for an outer key k are
\* pairwise distinct, however the calls were interleaved with calls for other
\* keys, the table stored in the value of k's outer bucket has filled equal
\* to the number of these values and ht_lookup finds each of them in it.
C5_MultimapClosure ==
  IsMultimap =>
    \A k \in OuterKeysOf(ghost.pairs) :
      Distinct(ValuesOf(ghost.pairs, k)) =>
        Let(ht_lookup(file, tab, k).pos, LAMBDA p :
          /\ p >= 0
          /\ Let(multimap_get(file, ht_value(file, tab, p)), LAMBDA inner :
               /\ Filled(file, inner) = Len(ValuesOf(ghost.pairs, k))
               /\ \A v \in Range(ValuesOf(ghost.pairs, k)) :
                    Let(ht_lookup(file, inner, v).pos, LAMBDA q :
                      /\ q >= 0
                      /\ CStr(file, BucketKeyptr(file, inner, q)) = v)))

\* two distinct values under one key with a call for the other key in
\* between, which rehashed the outer table; the arena has grown
C5_Witness ==
  /\ IsMultimap /\ Len(ghost.pairs) = 3
  /\ ghost.pairs[1][1] = ghost.pairs[3][1]
  /\ ghost.pairs[2][1] # ghost.pairs[1][1]
  /\ ghost.pairs[1][2] # ghost.pairs[3][2]
  /\ BucketCount(file, tab) = 4
  /\ ArenaSize > 420
  /\ last.op = "multimap_insert_key_val"

\* C6: the outer table's filled equals the number of distinct outer keys
\* passed to multimap_insert_key_val so far; a call for an outer key that is
\* already present makes no outer bucket and no nested table.
C6_OuterFilled ==
  [][last'.op = "multimap_insert_key_val"
     => /\ Filled(file', tab') = Cardinality(OuterKeysOf(ghost'.pairs))
        /\ last'.key \in OuterKeysOf(ghost.pairs) =>
             /\ Filled(file', tab') = Filled(file, tab)
             /\ Len(Slots(file', tab')) = Len(Slots(file, tab))
             /\ InnerTablesOf(file', tab') = InnerTablesOf(file, tab)]_vars

\* the third call is for the key of the first, after a call for another key
C6_Witness ==
  /\ IsMultimap /\ Len(ghost.pairs) = 3
  /\ last.op = "multimap_insert_key_val" /\ last.key = ghost.pairs[1][1]
  /\ Cardinality(OuterKeysOf(ghost.pairs)) = 2
  /\ Filled(file, tab) = 2
  /\ Cardinality(InnerTablesOf(file, tab)) = 2

\* C7: header.filled equals the number of buckets with hash != 0 that the
\* enumeration with ht_next yields, in every table after every completed
\* ht_init and insert; after n inserts of pairwise distinct keys it is n.
C7_FilledCountsSlots ==
  /\ \A hp \in Tables : Filled(file, hp) = Len(Slots(file, hp))
  /\ (IsSet /\ Distinct(ghost.ins)) => Filled(file, tab) = Len(ghost.ins)

\* three distinct keys in a table that was rehashed
C7_Witness ==
  /\ IsSet /\ Distinct(ghost.ins) /\ Len(ghost.ins) = 3
  /\ last.op = "ht_insert_str"
  /\ Len(Slots(file, tab)) = 3
  /\ BucketCount(file, tab) = 4

RECURSIVE IsPowerOfTwo(_)
IsPowerOfTwo(n) == n = 1 \/ (n > 1 /\ n % 2 = 0 /\ IsPowerOfTwo(n \div 2))

\* C8: load-factor bound.  Between the calls, every table has
\* filled <= floor(0.9 * bucket_count) and a bucket_count that is a power of
\* two >= 2.
C8_LoadFactor ==
  \A hp \in Tables :
    /\ 10 * Filled(file, hp) <= 9 * BucketCount(file, hp)
    /\ BucketCount(file, hp) >= 2
    /\ IsPowerOfTwo(BucketCount(file, hp))

\* a table of 4 buckets holding 3 keys (floor(3.6) = 3), and the table of 8
\* buckets the next insert made of it
C8_Witness ==
  /\ IsSet /\ last.op = "ht_insert_str"
  /\ \/ BucketCount(file, tab) = 4 /\ Filled(file, tab) = 3
     \/ BucketCount(file, tab) = 8 /\ Filled(file, tab) = 4

\* the probe distance of the key in bucket p of table hp
ProbeDist(m, hp, p) ==
  (p - HashMod(BucketHash(m, hp, p), BucketCount(m, hp))) % BucketCount(m, hp)

\* C9: probe-distance bound.  Every occupied bucket p of every table has
\* (p - bucket[p].hash) mod bucket_count <= header.max_dist.
C9_ProbeDistance ==
  \A hp \in Tables :
    \A p \in Range(Slots(file, hp)) :
      ProbeDist(file, hp, p) <= MaxDist(file, hp)

\* a rehashed table in which a key sits two buckets after its home bucket
C9_Witness ==
  /\ IsSet /\ BucketCount(file, tab) >= 4
  /\ MaxDist(file, tab) = 2
  /\ \E p \in Range(Slots(file, tab)) : ProbeDist(file, tab, p) = 2

\* C10: absent lookup.  ht_lookup of a key that was never inserted into the
\* table reads at most max_dist + 2 buckets, returns -1 and changes no byte
\* of the arena.
C10_AbsentLookup ==
  [][(last'.op = "ht_lookup" /\ last'.key \notin InsertedKeys)
     => /\ last'.res = -1
        /\ last'.probes <= MaxDist(file, tab) + 2
        /\ file' = file]_vars

\* the lookup of an absent key that ends at the distance cut-off, on an
\* occupied bucket, after max_dist + 2 buckets
C10_Witness ==
  /\ last.op = "ht_lookup" /\ last.key \notin InsertedKeys
  /\ last.res = -1
  /\ last.probes = MaxDist(file, tab) + 2
  /\ Let((HashMod(hash(last.key), BucketCount(file, tab)) + last.probes - 1)
           % BucketCount(file, tab), LAMBDA p :
       ~IsEmpty(BucketHash(file, tab, p)))

\* C11: payload stability.  The value stored in the bucket of an outer key
\* (the header_ptr of its nested table) is the value ht_lookup of that key
\* leads to after every later multimap_insert_key_val, those that displace
\* the key's bucket by a Robin Hood swap or move it in a rehash included.
C11_PayloadStability ==
  [][(IsMultimap /\ last'.op = "multimap_insert_key_val")
     => \A k \in OuterKeysOf(ghost.pairs) :
          /\ ht_lookup(file', tab', k).pos >= 0
          /\ RdBytes(file', ht_value(file', tab', ht_lookup(file', tab', k).pos),
                     SizeofMemptr)
               = RdBytes(file, ht_value(file, tab, ht_lookup(file, tab, k).pos),
                         SizeofMemptr)]_vars

\* "k", "b", "c" in this order: the outer table was rehashed to 4 buckets
\* with "k" in it, and "c" took the bucket of "b", which now sits one bucket
\* after its home bucket
C11_Witness ==
  /\ IsMultimap /\ Len(ghost.pairs) = 3
  /\ Cardinality(OuterKeysOf(ghost.pairs)) = 3
  /\ BucketCount(file, tab) = 4
  /\ ProbeDist(file, tab, ht_lookup(file, tab, ghost.pairs[2][1]).pos) = 1
  /\ ProbeDist(file, tab, ht_lookup(file, tab, ghost.pairs[3][1]).pos) = 1
  /\ multimap_get(file, ht_value(file, tab, ht_lookup(file, tab, ghost.pairs[2][1]).pos))
       \in InnerTablesOf(file, tab)

\* C12: failed grow is fatal.  Once mmap in mem_resize has returned
\* MAP_FAILED, nothing is read or written through the failed mapping and the
\* function that was growing the arena does not return.
C12_FailedGrowFatal ==
  exec.base = MapFailed => (exec.failed_line = 0 /\ ~Returned)

\* C15: no stale pointer use.  No function dereferences a raw pointer that
\* was computed from the address of the mapping before a call that moved the
\* mapping.
C15_NoStalePointer == exec.stale_line = 0

\* ht_init after its second mem_alloc moved the mapping: header was computed
\* before the call, computed again after it (line 280) and then dereferenced
C15_Witness ==
  /\ exec.fn = "ht_init" /\ exec.base > 0
  /\ exec.ptr["header"] = exec.base
  /\ exec.pc > 1 /\ Program(exec.fn)[exec.pc - 1] = Use("header", 281)
  /\ ~exec.crashed

\* 64-bit FNV-1a over the bytes of s taken as unsigned values: the byte is
\* xored into the low byte of v, then v is multiplied by the prime
RECURSIVE Fnv1aFrom(_, _, _)
Fnv1aFrom(v, s, i) ==
  IF i > Len(s) THEN v
  ELSE Fnv1aFrom(MulPrime(<<XorByte(v[1], s[i])>> \o SubSeq(v, 2, 8)), s, i + 1)

Fnv1a(str) == Fnv1aFrom(FnvOffsetBasis, str \o <<0>>, 1)

\* C13: hash function.  hash(key) is 64-bit FNV-1a over the bytes of the key
\* as unsigned values and the terminating NUL, with 0 replaced by 1; it is
\* never 0.
C13_HashIsFnv1a ==
  last.op = "hash"
    => /\ last.res = (IF Fnv1a(last.key) = Zero8 THEN ToBytes(1) ELSE Fnv1a(last.key))
       /\ last.res # Zero8

\* C14: returned insert position.  The bucket at the index ht_insert_str
\* returns holds the key string this call interned, not an entry that the
\* call displaced, also when the call rehashed the table first.
C14_ReturnedPosition ==
  [][last'.op = "ht_insert_str"
     => /\ last'.res >= 0 /\ last'.res < BucketCount(file', tab')
        /\ BucketKeyptr(file', tab', last'.res) = mem_insert_str(file, last'.key).ptr
        /\ CStr(file', BucketKeyptr(file', tab', last'.res)) = last'.key]_vars

\* "k", "b", "c": the call for "c" took the bucket of "b" and carried "b" on
\* to the next bucket, which is the bucket the loop wrote last
C14_Witness ==
  /\ IsSet /\ last.op = "ht_insert_str" /\ Len(ghost.ins) = 3
  /\ BucketCount(file, tab) = 4
  /\ CStr(file, BucketKeyptr(file, tab, last.res)) = ghost.ins[3]
  /\ ProbeDist(file, tab, last.res) = 1
  /\ CStr(file, BucketKeyptr(file, tab, Wrap(last.res, 4))) = ghost.ins[2]
  /\ ProbeDist(file, tab, Wrap(last.res, 4)) = 1

\* the ranges [h, h + n) that calls of mem_alloc(n) returned and that are in
\* use: the caller's blocks and, of every table, the header, the bucket array
\* and the interned key strings
Allocations ==
  {[h |-> ghost.blobs[i].h, n |-> ghost.blobs[i].n] : i \in 1..Len(ghost.blobs)}
    \cup UNION {
      {[h |-> hp, n |-> SizeofHeader],
       [h |-> BucketsPtr(file, hp), n |-> BucketCount(file, hp) * BucketSize(file, hp)]}
        \cup {[h |-> BucketKeyptr(file, hp, p),
               n |-> Len(CStr(file, BucketKeyptr(file, hp, p))) + 1] :
                p \in Range(Slots(file, hp))} : hp \in Tables}

Disjoint(a, an, b, bn) == a + an <= b \/ b + bn <= a

\* C16: allocations never overlap.  The ranges handed out by mem_alloc are
\* pairwise disjoint and disjoint from the region header and from every block
\* descriptor of the chain; each starts right after its own descriptor and
\* ends before the descriptor of the successor block.
C16_NoOverlap ==
  Let(Allocations, LAMBDA allocs :
  Let(Range(Chain(file)), LAMBDA blocks :
    \A a \in allocs :
      /\ \A b \in allocs \ {a} : Disjoint(a.h, a.n, b.h, b.n)
      /\ Disjoint(a.h, a.n, 0, SizeofMem)
      /\ \A d \in blocks : Disjoint(a.h, a.n, d, SizeofMemBlock)
      /\ (a.h - SizeofMemBlock) \in blocks
      /\ RdU64(file, a.h - SizeofMemBlock + OffNext) >= a.h + a.n))

\* a block of the caller between the allocations of a table that holds three
\* keys in a bucket array of its own second allocation
C16_Witness ==
  /\ IsSet /\ Len(ghost.blobs) = 1 /\ ghost.blobs[1].h > tab
  /\ BucketCount(file, tab) = 4 /\ Filled(file, tab) = 3
  /\ BucketsPtr(file, tab) > ghost.blobs[1].h
  /\ Cardinality(Allocations) = 6

\* s is the beginning of t
IsPrefix(s, t) == Len(s) <= Len(t) /\ SubSeq(t, 1, Len(s)) = s

\* C17: block chain well-formedness.  Following next from the head sentinel
\* visits blocks at strictly increasing offsets and ends at one tail block
\* with next = 0; prev and next are inverses of each other on the chain;
\* header.next_free is the offset of the tail block; and every step keeps the
\* blocks of the chain and appends the new ones (allocation order).
C17_ChainWellFormed ==
  /\ [](Let(Chain(file), LAMBDA c :
          /\ Len(c) >= 2 /\ c[1] = First
          /\ RdU64(file, First + OffPrev) = 0
          /\ \A i \in 1..(Len(c) - 1) :
               /\ c[i] < c[i + 1]
               /\ RdU64(file, c[i] + OffNext) = c[i + 1]
               /\ RdU64(file, c[i + 1] + OffPrev) = c[i]
          /\ RdU64(file, c[Len(c)] + OffNext) = 0
          /\ RdU64(file, OffNextFree) = c[Len(c)]))
  /\ [][IsPrefix(Chain(file), Chain(file'))]_vars

\* the chain after the allocations of a table, three keys and a block of
\* the caller, in an arena that has grown
C17_Witness ==
  /\ Len(Chain(file)) >= 9
  /\ Len(ghost.blobs) = 1 /\ Len(ghost.ins) = 3
  /\ ArenaSize > 420
  /\ RdU64(file, OffNextFree) = Chain(file)[Len(Chain(file))]

\* C18: in-bounds invariant.  In an arena created with more than 48 bytes,
\* every block descriptor of the chain, the tail included, and every range
\* handed out by mem_alloc lies below header.size, which the file backs; and
\* header.size never decreases.
C18_InBounds ==
  /\ [](/\ ArenaSize <= Len(file)
        /\ \A d \in Range(Chain(file)) : d + SizeofMemBlock <= ArenaSize
        /\ \A a \in Allocations : a.h + a.n <= ArenaSize)
  /\ [][RdU64(file', OffSize) >= RdU64(file, OffSize)]_vars

\* an arena that has grown: the block of the caller was allocated last, and
\* the tail descriptor ends below header.size
C18_Witness ==
  /\ ArenaSize >= 512 /\ Len(ghost.blobs) = 1 /\ tab # 0
  /\ last.op = "mem_alloc"
  /\ Chain(file)[Len(Chain(file))] + SizeofMemBlock < ArenaSize
  /\ ghost.blobs[1].h + ghost.blobs[1].n <= ArenaSize

\* 1.5 times the minimum required size after a growth (the offset of the new
\* tail plus one block descriptor), truncated to an integer
GrowProduct(m) == ((RdU64(m, OffNextFree) + SizeofMemBlock) * 3) \div 2

\* C19 as stated: growth sizing.  Whenever mem_alloc grows the arena, the new
\* header.size is the least multiple of 256 that is not below 1.5 times the
\* minimum required size.
C19_GrowthLeastMultiple ==
  [][RdU64(file', OffSize) # RdU64(file, OffSize)
     => RdU64(file', OffSize) = ((GrowProduct(file') + 255) \div 256) * 256]_vars

\* C19 amended: whenever mem_alloc grows the arena, the new header.size is
\* the least multiple of 256 that is strictly greater than 1.5 times the
\* minimum required size (a product that is a multiple of 256 gets 256 more).
C19_GrowthNextMultiple ==
  [][RdU64(file', OffSize) # RdU64(file, OffSize)
     => /\ RdU64(file', OffSize) = (GrowProduct(file') \div 256 + 1) * 256
        /\ RdU64(file', OffSize) > GrowProduct(file')
        /\ RdU64(file', OffSize) - 256 <= GrowProduct(file')]_vars

\* mem_alloc(444) in a new arena of 420 bytes: the new tail is at 496, the
\* minimum required size 512, the product 768 and the new size 1024
C19_Witness ==
  /\ last.op = "mem_alloc" /\ Len(ghost.blobs) = 1 /\ ghost.blobs[1].n = 444
  /\ RdU64(file, OffNextFree) = 496
  /\ GrowProduct(file) = 768
  /\ ArenaSize = 1024

\* C20: single doubling per insert.  A step leaves the bucket_count of every
\* table as it is or doubles it, and a call of ht_insert_str allocates one
\* block for the key and, when it doubles the table, one bucket array: there
\* is one rehash at most and no rehash inside the rehash.
C20_SingleDoubling ==
  [][/\ \A hp \in Tables :
          \/ BucketCount(file', hp) = BucketCount(file, hp)
          \/ BucketCount(file', hp) = 2 * BucketCount(file, hp)
     /\ last'.op = "ht_insert_str"
          => Len(Chain(file')) - Len(Chain(file))
               = (IF BucketCount(file', tab') = BucketCount(file, tab) THEN 1 ELSE 2)]_vars

\* the fourth key went into a table of 4 buckets holding 3 keys: the call
\* doubled the table to 8 buckets and inserted the 3 keys again
C20_Witness ==
  /\ IsSet /\ last.op = "ht_insert_str" /\ Len(ghost.ins) = 4
  /\ BucketCount(file, tab) = 8 /\ Filled(file, tab) = 4
  /\ Len(Slots(file, tab)) = 4


(***************************************************************************)
(* C21  Insertion terminates.  Every run of the probe loop of              *)
(* ht_insert_intern, the one of the call made by ht_insert_str and the     *)
(* ones of the re-insertions made by ht_resize, starts on a bucket array   *)
(* that has at least one bucket with hash == 0, ends by writing the entry  *)
(* it carries into an empty bucket, and makes at most bucket_count turns.  *)
(***************************************************************************)
C21_InsertionTerminates ==
  last.op = "ht_insert_str" =>
    /\ Len(last.loops) >= 1
    /\ \A i \in 1..Len(last.loops) :
         /\ last.loops[i].empty >= 1
         /\ last.loops[i].ended
         /\ last.loops[i].steps >= 1
         /\ last.loops[i].steps <= last.loops[i].bucket_count

\* an insertion that doubled 4 buckets to 8 and re-inserted three entries
\* before its own loop, one of the loops having displaced or skipped an entry
C21_Witness ==
  /\ last.op = "ht_insert_str"
  /\ Len(last.loops) = 4
  /\ \A i \in 1..4 : last.loops[i].bucket_count = 8
  /\ \E i \in 1..4 : last.loops[i].steps >= 2

====
